---- MODULE Spec2Model ----
(***************************************************************************)
(* minitorch, Module-2: tensor_ops.py.                                     *)
(*                                                                         *)
(* The three higher-order tensor operations (map, zip, reduce), each a     *)
(* kernel over (storage, shape, strides) triples wrapped by an entry point *)
(* over tensors.  Storages live in a heap `mem` addressed by storage id,   *)
(* so that two tensors (a tensor and its view) can share one storage.      *)
(* Storage positions and dimensions are 0-based as in the source; TLA+     *)
(* sequences are 1-based, so position p of a storage is element p + 1.     *)
(***************************************************************************)
EXTENDS Integers, Sequences, FiniteSets, TLC

VARIABLES
    mem,       \* storage id -> storage (a sequence of numbers)
    a,         \* first input tensor of the running call
    b,         \* second input tensor (zip)
    given,     \* the tensor the caller supplied as `out`, or NoTensor
    out,       \* the wrapper's local `out`
    result,    \* the tensor the wrapper returned
    op,        \* "none", "map", "zip", "reduce"
    fn,        \* the scalar function the kernel was specialised with
    start,     \* reduce: the seed value
    dims,      \* reduce: the dimensions listed in `dims` (0-based), as a set
    red,       \* reduce: [shape |-> reduce_shape, size |-> reduce_size]
    pc,        \* "idle", "map", "zip", "reduce", "reduced", "done", "fault"
    i,         \* the kernel's loop variable
    writes,    \* output positions written by the running kernel, in order
    fault,     \* [kind, pos]: the exception that ended the call
    sb,        \* TRUE when the running call invoked shape_broadcast
    ncall,     \* number of calls made so far
    entry,     \* reduce: the supplied out's storage as it was before the call
    prev       \* reduce without out: storage and shape the previous call returned

vars == <<mem, a, b, given, out, result, op, fn, start, dims, red, pc, i,
          writes, fault, sb, ncall, entry, prev>>

-----------------------------------------------------------------------------
(* Bounds of the model *)

MaxExt == 3
MaxSize == 8
MaxCalls == 2

\* The largest number of dimensions of extent 2 or more that a storage of
\* MaxSize elements can hold; shapes of up to that rank are built.
RECURSIVE Log2(_)
Log2(n) == IF n < 2 THEN 0 ELSE 1 + Log2(n \div 2)
MaxRank == Log2(MaxSize)

Bases == {0, 1}
Starts == {0, 1}
Priors == {0, 5}
UnaryFns == {"id", "neg", "double"}
BinaryFns == {"add", "sub", "max"}

-----------------------------------------------------------------------------
(* Scalar functions *)

Apply1(f, x) ==
    CASE f = "id" -> x
      [] f = "neg" -> 0 - x
      [] f = "double" -> x + x

Apply2(f, x, y) ==
    CASE f = "add" -> x + y
      [] f = "sub" -> x - y
      [] f = "max" -> IF x >= y THEN x ELSE y

-----------------------------------------------------------------------------
(* tensor_data: shapes, strides, indices *)

RECURSIVE Prod(_)
Prod(s) == IF s = <<>> THEN 1 ELSE Head(s) * Prod(Tail(s))

RECURSIVE Dot(_, _)
Dot(x, y) == IF x = <<>> THEN 0 ELSE Head(x) * Head(y) + Dot(Tail(x), Tail(y))

\* count(position, shape, out_index): row-major decoding of an ordinal.
count(ordinal, shape) ==
    [k \in 1..Len(shape) |->
        (ordinal \div Prod(SubSeq(shape, k + 1, Len(shape)))) % shape[k]]

\* index_to_position(index, strides): dot product.
index_to_position(index, strides) == Dot(index, strides)

\* broadcast_index(big_index, big_shape, shape, out_index): right-aligned;
\* the coordinate is 0 wherever the small shape's extent is 1.
broadcast_index(big_index, big_shape, shape) ==
    [k \in 1..Len(shape) |->
        IF shape[k] > 1 THEN big_index[k + (Len(big_shape) - Len(shape))] ELSE 0]

\* The extent of dimension k of `shape` once left-padded with 1s to rank n.
Padded(shape, n, k) ==
    IF k > n - Len(shape) THEN shape[k - (n - Len(shape))] ELSE 1

Max2(x, y) == IF x >= y THEN x ELSE y

Compatible(s1, s2) ==
    LET n == Max2(Len(s1), Len(s2)) IN
    \A k \in 1..n :
        \/ Padded(s1, n, k) = Padded(s2, n, k)
        \/ Padded(s1, n, k) = 1
        \/ Padded(s2, n, k) = 1

\* shape_broadcast(shape1, shape2): the union shape, or the indexing fault.
shape_broadcast(s1, s2) ==
    LET n == Max2(Len(s1), Len(s2)) IN
    IF Compatible(s1, s2)
    THEN [ok |-> TRUE,
          shape |-> [k \in 1..n |-> Max2(Padded(s1, n, k), Padded(s2, n, k))]]
    ELSE [ok |-> FALSE, shape |-> <<>>]

\* Strides of a contiguous (row-major) tensor of the given shape.
strides_from_shape(shape) ==
    [k \in 1..Len(shape) |-> Prod(SubSeq(shape, k + 1, Len(shape)))]

NoTensor == [sid |-> "none", shape |-> <<>>, strides |-> <<>>]

Tensor(sid, shape, strides) == [sid |-> sid, shape |-> shape, strides |-> strides]

\* a.zeros(shape): a new contiguous tensor over a new zero-filled storage.
zeros(sid, shape) == Tensor(sid, shape, strides_from_shape(shape))

ZeroStorage(n) == [p \in 1..n |-> 0]

\* t.view(*shape): a new contiguous tensor over the same storage.
view(t, shape) == Tensor(t.sid, shape, strides_from_shape(shape))

-----------------------------------------------------------------------------
(* The tensors a caller can build *)

Shapes ==
    {s \in UNION {[1..n -> 1..MaxExt] : n \in 1..MaxRank} : Prod(s) <= MaxSize}

Perms(n) == {f \in [1..n -> 1..n] : \A x, y \in 1..n : f[x] = f[y] => x = y}

\* The strides of a tensor whose dimension k is the pi[k]-th outermost in
\* storage: a permute() of a contiguous tensor.  The identity is row-major.
Layout(shape, pi) ==
    [k \in 1..Len(shape) |->
        Prod([j \in 1..Len(shape) |-> IF pi[j] > pi[k] THEN shape[j] ELSE 1])]

Tensors(sid) ==
    UNION {{Tensor(sid, s, Layout(s, pi)) : pi \in Perms(Len(s))} : s \in Shapes}

\* Storage contents: distinct values, every subset of them with its own sum.
Storage(n, base) == [p \in 1..n |-> base + 2 ^ (p - 1)]

Size(t) == Prod(t.shape)

Indices(shape) == {count(o, shape) : o \in 0..(Prod(shape) - 1)}

\* The element of tensor t at logical index idx, in heap m.
At(m, t, idx) == m[t.sid][index_to_position(idx, t.strides) + 1]

InRange(m, sid, pos) == pos >= 0 /\ pos < Len(m[sid])

NoFault == [kind |-> "none", pos |-> 0]
NoRed == [shape |-> <<>>, size |-> 0]
NoPrev == [storage |-> <<>>, shape |-> <<>>, a_storage |-> <<>>]

EmptyMem == [s \in {"a", "b", "given", "new"} |-> <<>>]

-----------------------------------------------------------------------------
(* tensor_map: one iteration of the kernel's loop *)

\* Mutant: the input is read at the output's ordinal, as if it were laid out
\* like the output.
tensor_map_pos_i(m, f, o, in, n) ==
    IF InRange(m, in.sid, n)
    THEN [ok |-> TRUE, pos |-> n, wrote |-> n,
          mem |-> [m EXCEPT ![o.sid][n + 1] = Apply1(f, m[in.sid][n + 1])]]
    ELSE [ok |-> FALSE, pos |-> n, wrote |-> n, mem |-> m]

\* Mutant: the value is stored at the input's position, not at the ordinal.
tensor_map_at_pos(m, f, o, in, n) ==
    LET big_index == count(n, o.shape)
        in_index == broadcast_index(big_index, o.shape, in.shape)
        pos == index_to_position(in_index, in.strides)
    IN  IF InRange(m, in.sid, pos)
        THEN [ok |-> TRUE, pos |-> pos, wrote |-> pos,
              mem |-> [m EXCEPT ![o.sid][pos + 1] = Apply1(f, m[in.sid][pos + 1])]]
        ELSE [ok |-> FALSE, pos |-> pos, wrote |-> n, mem |-> m]

tensor_map(m, f, o, in, n) ==
    LET big_index == count(n, o.shape)
        in_index == broadcast_index(big_index, o.shape, in.shape)
        pos == index_to_position(in_index, in.strides)
    IN  IF InRange(m, in.sid, pos)
        THEN [ok |-> TRUE, pos |-> pos, wrote |-> n,
              mem |-> [m EXCEPT ![o.sid][n + 1] = Apply1(f, m[in.sid][pos + 1])]]
        ELSE [ok |-> FALSE, pos |-> pos, wrote |-> n, mem |-> m]

Init ==
    /\ mem = EmptyMem
    /\ a = NoTensor
    /\ b = NoTensor
    /\ given = NoTensor
    /\ out = NoTensor
    /\ result = NoTensor
    /\ op = "none"
    /\ fn = "none"
    /\ start = 0
    /\ dims = {}
    /\ red = NoRed
    /\ pc = "idle"
    /\ i = 0
    /\ writes = <<>>
    /\ fault = NoFault
    /\ sb = FALSE
    /\ ncall = 0
    /\ entry = <<>>
    /\ prev = NoPrev

\* map(fn)(a, out=None): lines 62-65, up to the kernel's first iteration.
\* A supplied out is a zero-filled tensor of a shape that a broadcasts to.
map_ret ==
    /\ pc = "idle"
    /\ \E ta \in Tensors("a"), base \in Bases, f \in UnaryFns,
          g \in {NoTensor} \cup {zeros("given", s) : s \in Shapes} :
        /\ g # NoTensor =>
              /\ Len(ta.shape) <= Len(g.shape)
              /\ shape_broadcast(ta.shape, g.shape).ok
              /\ shape_broadcast(ta.shape, g.shape).shape = g.shape
        /\ a' = ta
        /\ given' = g
        /\ fn' = f
        /\ out' = IF g = NoTensor THEN zeros("new", ta.shape) ELSE g
        /\ mem' = [EmptyMem EXCEPT
                     !["a"] = Storage(Size(ta), base),
                     !["given"] = ZeroStorage(Size(g)),
                     !["new"] = IF g = NoTensor THEN ZeroStorage(Size(ta)) ELSE <<>>]
    /\ op' = "map"
    /\ pc' = "map"
    /\ i' = 0
    /\ ncall' = ncall + 1
    /\ UNCHANGED <<b, result, start, dims, red, writes, fault, sb, entry, prev>>

\* One iteration of _map's loop (lines 32-38).
map_loop ==
    /\ pc = "map"
    /\ i < Len(mem[out.sid])
    /\ LET r == tensor_map(mem, fn, out, a, i) IN
        IF r.ok
        THEN /\ mem' = r.mem
             /\ writes' = Append(writes, r.wrote)
             /\ i' = i + 1
             /\ UNCHANGED <<pc, fault>>
        ELSE /\ pc' = "fault"
             /\ fault' = [kind |-> "IndexError", pos |-> r.pos]
             /\ UNCHANGED <<mem, writes, i>>
    /\ UNCHANGED <<a, b, given, out, result, op, fn, start, dims, red, sb, ncall, entry, prev>>

\* The loop ends and the wrapper returns out (line 66).
map_done ==
    /\ pc = "map"
    /\ i = Len(mem[out.sid])
    /\ pc' = "done"
    /\ result' = out
    /\ UNCHANGED <<mem, a, b, given, out, op, fn, start, dims, red, i, writes,
                   fault, sb, ncall, entry, prev>>

-----------------------------------------------------------------------------
(* zip *)

\* Mutant: the output takes a's shape and shape_broadcast is never asked.
zip_shape_unchecked(a_shape, b_shape) ==
    [invoked |-> FALSE, ok |-> TRUE, shape |-> a_shape]

\* zip.ret, lines 142-145: the output shape; equal shapes short-circuit.
zip_shape(a_shape, b_shape) ==
    IF a_shape # b_shape
    THEN [invoked |-> TRUE,
          ok |-> shape_broadcast(a_shape, b_shape).ok,
          shape |-> shape_broadcast(a_shape, b_shape).shape]
    ELSE [invoked |-> FALSE, ok |-> TRUE, shape |-> a_shape]

\* Mutant: both inputs are addressed as if they were contiguous.
tensor_zip_contig(m, f, o, x, y, n) ==
    LET out_index == count(n, o.shape)
        a_index == broadcast_index(out_index, o.shape, x.shape)
        b_index == broadcast_index(out_index, o.shape, y.shape)
        a_pos == index_to_position(a_index, strides_from_shape(x.shape))
        b_pos == index_to_position(b_index, strides_from_shape(y.shape))
    IN  [ok |-> TRUE, pos |-> a_pos, wrote |-> n,
         mem |-> [m EXCEPT ![o.sid][n + 1] =
                     Apply2(f, m[x.sid][a_pos + 1], m[y.sid][b_pos + 1])]]

\* tensor_zip: one iteration of _zip's loop (lines 107-119).
tensor_zip(m, f, o, x, y, n) ==
    LET out_index == count(n, o.shape)
        a_index == broadcast_index(out_index, o.shape, x.shape)
        b_index == broadcast_index(out_index, o.shape, y.shape)
        a_pos == index_to_position(a_index, x.strides)
        b_pos == index_to_position(b_index, y.strides)
    IN  IF ~InRange(m, x.sid, a_pos)
        THEN [ok |-> FALSE, pos |-> a_pos, wrote |-> n, mem |-> m]
        ELSE IF ~InRange(m, y.sid, b_pos)
        THEN [ok |-> FALSE, pos |-> b_pos, wrote |-> n, mem |-> m]
        ELSE [ok |-> TRUE, pos |-> a_pos, wrote |-> n,
              mem |-> [m EXCEPT ![o.sid][n + 1] =
                          Apply2(f, m[x.sid][a_pos + 1], m[y.sid][b_pos + 1])]]

\* zip(fn)(a, b): lines 141-147, up to the kernel's first iteration.
zip_ret ==
    /\ pc = "idle"
    /\ \E ta \in Tensors("a"), tb \in Tensors("b"), base \in Bases, f \in BinaryFns :
        LET c == zip_shape(ta.shape, tb.shape) IN
        /\ a' = ta
        /\ b' = tb
        /\ fn' = f
        /\ sb' = c.invoked
        /\ IF c.ok
           THEN /\ out' = zeros("new", c.shape)
                /\ mem' = [EmptyMem EXCEPT
                             !["a"] = Storage(Size(ta), base),
                             !["b"] = Storage(Size(tb), 1 - base),
                             !["new"] = ZeroStorage(Prod(c.shape))]
                /\ pc' = "zip"
                /\ fault' = fault
           ELSE /\ out' = out
                /\ mem' = [EmptyMem EXCEPT
                             !["a"] = Storage(Size(ta), base),
                             !["b"] = Storage(Size(tb), 1 - base)]
                /\ pc' = "fault"
                /\ fault' = [kind |-> "IndexingError", pos |-> 0]
    /\ op' = "zip"
    /\ i' = 0
    /\ ncall' = ncall + 1
    /\ UNCHANGED <<given, result, start, dims, red, writes, entry, prev>>

zip_loop ==
    /\ pc = "zip"
    /\ i < Len(mem[out.sid])
    /\ LET r == tensor_zip(mem, fn, out, a, b, i) IN
        IF r.ok
        THEN /\ mem' = r.mem
             /\ writes' = Append(writes, r.wrote)
             /\ i' = i + 1
             /\ UNCHANGED <<pc, fault>>
        ELSE /\ pc' = "fault"
             /\ fault' = [kind |-> "IndexError", pos |-> r.pos]
             /\ UNCHANGED <<mem, writes, i>>
    /\ UNCHANGED <<a, b, given, out, result, op, fn, start, dims, red, sb, ncall, entry, prev>>

\* The loop ends and the wrapper returns out (line 148).
zip_done ==
    /\ pc = "zip"
    /\ i = Len(mem[out.sid])
    /\ pc' = "done"
    /\ result' = out
    /\ UNCHANGED <<mem, a, b, given, out, op, fn, start, dims, red, i, writes,
                   fault, sb, ncall, entry, prev>>

-----------------------------------------------------------------------------
(* reduce *)

\* reduce.ret, lines 234-236: a.shape with every listed dimension set to 1.
reduce_out_shape(a_shape, ds) ==
    [k \in 1..Len(a_shape) |-> IF (k - 1) \in ds THEN 1 ELSE a_shape[k]]

\* Mutant: the seeding is forgotten.
fill_skip(storage, value) == storage

\* line 239: out._tensor._storage[:] = start
fill(storage, value) == [p \in 1..Len(storage) |-> value]

\* lines 241-243: the supplied out, left-padded with 1s to a's rank.
pad_view(g, a_shape) ==
    view(g, [k \in 1..(Len(a_shape) - Len(g.shape)) |-> 1] \o g.shape)

\* lines 249-256: reduce_shape and reduce_size from a.shape and out.shape.
reduce_shape(a_shape, out_shape) ==
    LET rs == [k \in 1..Len(a_shape) |-> IF out_shape[k] = 1 THEN a_shape[k] ELSE 1]
    IN  [shape |-> rs, size |-> Prod(rs)]

\* Mutant: the reduced dimension is taken to be dimension 0.
red_dim_zero(rshape) == 0

\* lines 191-194: the first dimension (0-based) whose reduce_shape entry is
\* not 1; dimension 0 when there is none.
red_dim(rshape) ==
    IF \E k \in 1..Len(rshape) : rshape[k] # 1
    THEN (CHOOSE k \in 1..Len(rshape) :
              /\ rshape[k] # 1
              /\ \A j \in 1..(k - 1) : rshape[j] = 1) - 1
    ELSE 0

\* Mutant: the accumulator is passed first, as on the partial path.
RECURSIVE fold_storage_left(_, _, _)
fold_storage_left(f, res, xs) ==
    IF xs = <<>> THEN res
    ELSE fold_storage_left(f, Apply2(f, res, Head(xs)), Tail(xs))

\* lines 186-189: res = out[0]; for x in a_storage: res = fn(x, res).
RECURSIVE fold_storage(_, _, _)
fold_storage(f, res, xs) ==
    IF xs = <<>> THEN res ELSE fold_storage(f, Apply2(f, Head(xs), res), Tail(xs))

\* lines 202-204: res = args[0]; for arg in args[1:]: res = fn(res, arg).
RECURSIVE fold_args(_, _, _)
fold_args(f, res, xs) ==
    IF xs = <<>> THEN res ELSE fold_args(f, Apply2(f, res, Head(xs)), Tail(xs))

\* _reduce, lines 185-189: the full-reduction path.
tensor_reduce_full(m, f, o, x) ==
    [m EXCEPT ![o.sid][1] = fold_storage(f, m[o.sid][1], m[x.sid])]

\* _reduce, lines 196-206: one iteration of the partial path's loop.
tensor_reduce(m, f, o, x, r, n) ==
    LET out_index == count(n, o.shape)
        a_pos == index_to_position(out_index, x.strides)
        step == x.strides[red_dim(r.shape) + 1]
        poss == [j \in 1..r.size |-> a_pos + (j - 1) * step]
        bad == {j \in 1..r.size : ~InRange(m, x.sid, poss[j])}
    IN  IF bad # {}
        THEN [ok |-> FALSE, mem |-> m, wrote |-> n,
              pos |-> poss[CHOOSE j \in bad : \A k \in bad : j <= k]]
        ELSE [ok |-> TRUE, pos |-> a_pos, wrote |-> n,
              mem |-> [m EXCEPT ![o.sid][n + 1] =
                          fold_args(f, m[o.sid][n + 1],
                                    [j \in 1..r.size |-> m[x.sid][poss[j] + 1]])]]

\* reduce.ret, lines 233-243: the tensor the kernel writes and the heap it
\* starts from.  Without a supplied out a new tensor is seeded with start;
\* a supplied out keeps its contents.
reduce_out(m, a_shape, ds, g, st) ==
    IF g = NoTensor
    THEN LET o == zeros("new", reduce_out_shape(a_shape, ds)) IN
         [out |-> o,
          mem |-> [m EXCEPT !["new"] = fill(ZeroStorage(Prod(o.shape)), st)]]
    ELSE [out |-> pad_view(g, a_shape), mem |-> m]

\* Mutant: the padded view is returned as it is.
reduce_result_noview(o, g) == o

\* lines 261-263: a supplied out is viewed back to its old shape.
reduce_result(o, g) == IF g # NoTensor THEN view(o, g.shape) ELSE o

\* reduce.ret, lines 232-256, on tensor ta whose storage the heap holds.
ReduceEnter(ta, f, st, ds, g, m) ==
    LET o == reduce_out(m, ta.shape, ds, g, st).out
    IN  /\ a' = ta
        /\ fn' = f
        /\ start' = st
        /\ dims' = ds
        /\ given' = g
        /\ out' = o
        /\ mem' = reduce_out(m, ta.shape, ds, g, st).mem
        /\ entry' = IF g = NoTensor THEN <<>> ELSE m[g.sid]
        /\ IF Len(o.shape) = Len(ta.shape)
           THEN /\ red' = reduce_shape(ta.shape, o.shape)
                /\ pc' = "reduce"
                /\ fault' = NoFault
           ELSE /\ red' = NoRed
                /\ pc' = "fault"
                /\ fault' = [kind |-> "AssertionError", pos |-> 0]
        /\ op' = "reduce"
        /\ i' = 0
        /\ writes' = <<>>
        /\ result' = NoTensor
        /\ ncall' = ncall + 1
        /\ UNCHANGED <<b, sb>>

\* A supplied out holds a reduction of a (every extent, once left-padded,
\* is 1 or a's), or has a higher rank than a, which the assertion rejects.
GivenFor(ta) ==
    {g \in {zeros("given", s) : s \in Shapes} :
        \/ Len(g.shape) = Len(ta.shape) + 1
        \/ /\ Len(g.shape) <= Len(ta.shape)
           /\ \A k \in 1..Len(ta.shape) :
                  Padded(g.shape, Len(ta.shape), k) \in {1, ta.shape[k]}}

\* reduce(fn, start)(a, dims) and reduce(fn, start)(a, out=given).
reduce_ret ==
    /\ pc = "idle"
    /\ \E ta \in Tensors("a"), base \in Bases, f \in BinaryFns, st \in Starts :
        \/ \E ds \in SUBSET (0..(Len(ta.shape) - 1)) :
              ReduceEnter(ta, f, st, ds, NoTensor,
                          [EmptyMem EXCEPT !["a"] = Storage(Size(ta), base)])
        \/ \E g \in GivenFor(ta), prior \in Priors :
              ReduceEnter(ta, f, st, {}, g,
                          [EmptyMem EXCEPT
                             !["a"] = Storage(Size(ta), base),
                             !["given"] = [p \in 1..Size(g) |-> prior * p]])
    /\ prev' = prev

\* The same wrapper called again on the same a and dims.
reduce_again ==
    /\ pc = "done"
    /\ op = "reduce"
    /\ given = NoTensor
    /\ ncall < MaxCalls
    /\ prev' = [storage |-> mem[result.sid], shape |-> result.shape,
                a_storage |-> mem[a.sid]]
    /\ ReduceEnter(a, fn, start, dims, NoTensor, mem)

reduce_full ==
    /\ pc = "reduce"
    /\ red.size = Len(mem[a.sid])
    /\ mem' = tensor_reduce_full(mem, fn, out, a)
    /\ writes' = Append(writes, 0)
    /\ pc' = "reduced"
    /\ UNCHANGED <<a, b, given, out, result, op, fn, start, dims, red, i, fault,
                   sb, ncall, entry, prev>>

reduce_loop ==
    /\ pc = "reduce"
    /\ red.size # Len(mem[a.sid])
    /\ i < Len(mem[out.sid])
    /\ LET r == tensor_reduce(mem, fn, out, a, red, i) IN
        IF r.ok
        THEN /\ mem' = r.mem
             /\ writes' = Append(writes, r.wrote)
             /\ i' = i + 1
             /\ UNCHANGED <<pc, fault>>
        ELSE /\ pc' = "fault"
             /\ fault' = [kind |-> "IndexError", pos |-> r.pos]
             /\ UNCHANGED <<mem, writes, i>>
    /\ UNCHANGED <<a, b, given, out, result, op, fn, start, dims, red, sb, ncall, entry, prev>>

\* lines 261-263: the kernel has returned; view back and return.
reduce_done ==
    /\ \/ pc = "reduced"
       \/ pc = "reduce" /\ red.size # Len(mem[a.sid]) /\ i = Len(mem[out.sid])
    /\ pc' = "done"
    /\ result' = reduce_result(out, given)
    /\ out' = result'
    /\ UNCHANGED <<mem, a, b, given, op, fn, start, dims, red, i, writes, fault,
                   sb, ncall, entry, prev>>

Next ==
    \/ map_ret \/ map_loop \/ map_done
    \/ zip_ret \/ zip_loop \/ zip_done
    \/ reduce_ret \/ reduce_again \/ reduce_full \/ reduce_loop \/ reduce_done

Spec == Init /\ [][Next]_vars

-----------------------------------------------------------------------------
(* Vocabulary of the properties *)

Contiguous(t) == t.strides = strides_from_shape(t.shape)

Iota(n) == [k \in 1..n |-> k - 1]

NonUnit(shape) == {k \in 1..Len(shape) : shape[k] # 1}

Front(xs) == SubSeq(xs, 1, Len(xs) - 1)

RECURSIVE SumSeq(_)
SumSeq(xs) == IF xs = <<>> THEN 0 ELSE Head(xs) + SumSeq(Tail(xs))

\* fn(...fn(fn(s, x_1), x_2)..., x_n)
RECURSIVE LeftNest(_, _, _)
LeftNest(f, s, xs) ==
    IF xs = <<>> THEN s ELSE Apply2(f, LeftNest(f, s, Front(xs)), xs[Len(xs)])

\* fn(x_n, fn(x_(n-1), ... fn(x_1, s)))
RECURSIVE RightNest(_, _, _)
RightNest(f, s, xs) ==
    IF xs = <<>> THEN s ELSE Apply2(f, xs[Len(xs)], RightNest(f, s, Front(xs)))

\* The elements of t that agree with idx off dimension d (1-based), in
\* increasing index along d.
Line(t, idx, d) == [j \in 1..t.shape[d] |-> At(mem, t, [idx EXCEPT ![d] = j - 1])]

\* The sum of the elements of t that agree with idx on every dimension of
\* `kept`.
RECURSIVE SumOver(_, _)
SumOver(t, idxs) ==
    IF idxs = {} THEN 0
    ELSE LET j == CHOOSE x \in idxs : TRUE IN At(mem, t, j) + SumOver(t, idxs \ {j})

Agreeing(t, idx, kept) ==
    {j \in Indices(t.shape) : \A k \in kept : j[k] = idx[k]}

\* The returned tensor's shape left-padded with 1s to a's rank.
PaddedResult == [k \in 1..Len(a.shape) |-> Padded(result.shape, Len(a.shape), k)]

\* The accumulator the reduce kernel found at output position p.
SeedAt(p) == IF given = NoTensor THEN start ELSE entry[p + 1]

FullReduction == red.size = Len(mem[a.sid])

\* The elements of a that a reduction with at most one reduced dimension of
\* extent 2 or more folds into the output entry at idx, in increasing index
\* along that dimension; the one element at idx when there is none.
Contributing(idx) ==
    IF NonUnit(red.shape) = {}
    THEN <<At(mem, a, idx)>>
    ELSE Line(a, idx, CHOOSE k \in NonUnit(red.shape) : TRUE)

-----------------------------------------------------------------------------
(* C1 *)

\* C1: zip(fn)(a, b) on broadcast-compatible shapes never faults, and the
\* tensor it returns has shape shape_broadcast(a.shape, b.shape) with, at
\* every index idx, fn of a's and b's elements at idx broadcast down to their
\* shapes, whatever the strides of a and b.
C1_ZipBroadcast ==
    (op = "zip" /\ Compatible(a.shape, b.shape)) =>
        /\ pc # "fault"
        /\ pc = "done" =>
              /\ result.shape = shape_broadcast(a.shape, b.shape).shape
              /\ \A idx \in Indices(result.shape) :
                    At(mem, result, idx) =
                        Apply2(fn,
                               At(mem, a, broadcast_index(idx, result.shape, a.shape)),
                               At(mem, b, broadcast_index(idx, result.shape, b.shape)))

C1_Witness ==
    /\ op = "zip" /\ pc = "done" /\ fn = "sub"
    /\ a.shape = <<3, 1>> /\ b.shape = <<1, 2>> /\ result.shape = <<3, 2>>
    /\ ~Contiguous(a)
    /\ \A r \in 0..2, c \in 0..1 :
          At(mem, result, <<r, c>>) = At(mem, a, <<r, 0>>) - At(mem, b, <<0, c>>)

-----------------------------------------------------------------------------
(* C2 *)

\* C2: reduce(add, start=0)(a, dims=[d]) without out never faults and
\* returns a tensor of a's rank, of a's shape with extent 1 at d, holding at
\* each index the sum of a's elements that agree with it off dimension d.
C2_ReduceOneDim ==
    (/\ op = "reduce" /\ given = NoTensor /\ fn = "add" /\ start = 0
     /\ Cardinality(dims) = 1) =>
        LET d == (CHOOSE x \in dims : TRUE) + 1 IN
        /\ pc # "fault"
        /\ pc = "done" =>
              /\ result.shape = [k \in 1..Len(a.shape) |->
                                    IF k = d THEN 1 ELSE a.shape[k]]
              /\ \A idx \in Indices(result.shape) :
                    At(mem, result, idx) = SumSeq(Line(a, idx, d))

C2_Witness ==
    /\ op = "reduce" /\ given = NoTensor /\ fn = "add" /\ start = 0
    /\ pc = "done"
    /\ a.shape = <<2, 3>> /\ dims = {1} /\ result.shape = <<2, 1>>
    /\ ~Contiguous(a)

-----------------------------------------------------------------------------
(* C3 *)

\* C3: map(fn)(a) without an output returns a tensor of a's own shape whose
\* element at every index is fn of a's element at that index, whatever a's
\* strides.
C3_MapElementwise ==
    (op = "map" /\ given = NoTensor) =>
        /\ pc # "fault"
        /\ pc = "done" =>
              /\ result.shape = a.shape
              /\ \A idx \in Indices(a.shape) :
                    At(mem, result, idx) = Apply1(fn, At(mem, a, idx))

C3_Witness ==
    /\ op = "map" /\ given = NoTensor /\ pc = "done" /\ fn = "id"
    /\ a.shape = <<2, 3>> /\ ~Contiguous(a)
    /\ \A idx \in Indices(a.shape) : At(mem, result, idx) = At(mem, a, idx)

-----------------------------------------------------------------------------
(* C4 *)

\* C4: on contiguous inputs, no call of map, of zip or of reduce with a
\* list of dimensions reads or writes a storage position outside the
\* storage.
C4_PositionsInRange ==
    (/\ op \in {"map", "zip", "reduce"}
     /\ Contiguous(a)
     /\ op = "zip" => Contiguous(b)
     /\ op = "reduce" => given = NoTensor) =>
        fault.kind # "IndexError"

-----------------------------------------------------------------------------
(* C5 *)

\* C5: with a supplied out of lower rank than a, the reduce kernel runs on
\* a view of out's storage left-padded with 1s to a's rank, starts from the
\* values out held before the call (under add each entry ends as its old
\* value plus the elements of a folded into it), allocates nothing, and the
\* tensor returned has the supplied out's shape and storage.
C5_SuppliedOut ==
    (op = "reduce" /\ given # NoTensor /\ Len(given.shape) < Len(a.shape)) =>
        /\ pc \in {"reduce", "reduced"} =>
              /\ out.sid = given.sid
              /\ Len(out.shape) = Len(a.shape)
              /\ \A k \in 1..Len(a.shape) :
                    out.shape[k] = Padded(given.shape, Len(a.shape), k)
        /\ (pc = "reduce" /\ writes = <<>>) => mem[given.sid] = entry
        /\ mem["new"] = <<>>
        /\ pc = "done" =>
              /\ result.shape = given.shape
              /\ result.sid = given.sid
              /\ (fn = "add" /\ (FullReduction \/ Cardinality(NonUnit(red.shape)) <= 1)) =>
                    \A p \in 0..(Len(entry) - 1) :
                        mem[given.sid][p + 1] =
                            entry[p + 1]
                            + SumOver(a, Agreeing(a, count(p, PaddedResult),
                                                  NonUnit(PaddedResult)))

C5_Witness ==
    /\ op = "reduce" /\ pc = "done" /\ fn = "add"
    /\ a.shape = <<2, 3>> /\ given.shape = <<3>> /\ result.shape = <<3>>
    /\ entry = <<5, 10, 15>>
    /\ start = 1
    /\ mem[given.sid] # entry

-----------------------------------------------------------------------------
(* C6 *)

\* C6: a reduce call without out starts its kernel on an output holding
\* start in every entry, and a second call on the same a and dims returns
\* the shape and the values the first call returned, a's storage being the
\* same at both calls.
C6_RepeatedReduce ==
    (op = "reduce" /\ given = NoTensor) =>
        /\ (pc = "reduce" /\ writes = <<>>) =>
              \A p \in 1..Len(mem[out.sid]) : mem[out.sid][p] = start
        /\ ncall >= 2 => mem[a.sid] = prev.a_storage
        /\ (ncall >= 2 /\ pc = "done") =>
              /\ result.shape = prev.shape
              /\ mem[result.sid] = prev.storage

C6_Witness ==
    /\ op = "reduce" /\ given = NoTensor /\ pc = "done" /\ ncall = 2
    /\ start = 1 /\ fn = "sub"
    /\ a.shape = <<2, 3>> /\ dims = {0}
    /\ mem[result.sid] = prev.storage

-----------------------------------------------------------------------------
(* C7 *)

\* C7: zip on shapes that are not broadcast-compatible ends in the fault
\* shape_broadcast raises, with no output allocated, nothing written and
\* nothing returned; zip on equal shapes does not invoke shape_broadcast
\* and its output has exactly a's shape.
C7_ZipShapes ==
    op = "zip" =>
        /\ ~Compatible(a.shape, b.shape) =>
              /\ pc = "fault"
              /\ fault.kind = "IndexingError"
              /\ sb
              /\ out = NoTensor /\ result = NoTensor
              /\ mem["new"] = <<>> /\ writes = <<>>
        /\ a.shape = b.shape =>
              /\ ~sb
              /\ pc # "fault"
              /\ out.shape = a.shape
              /\ pc = "done" => result.shape = a.shape

C7_Witness ==
    /\ op = "zip" /\ pc = "fault" /\ fault.kind = "IndexingError"
    /\ a.shape = <<3, 2>> /\ b.shape = <<2, 2>>

-----------------------------------------------------------------------------
(* C8 *)

\* C8: when reduce_shape has more than one entry that is not 1 and the
\* reduction is not a full one, the reduce kernel raises no fault and
\* completes having written every output position.
C8_MultiDimNoFault ==
    (/\ op = "reduce"
     /\ Cardinality(NonUnit(red.shape)) > 1
     /\ ~FullReduction) =>
        /\ pc # "fault"
        /\ pc = "done" => writes = Iota(Len(mem[out.sid]))

-----------------------------------------------------------------------------
(* C9 *)

\* C9: the map and zip kernels write the output positions 0, 1, ...,
\* len(out) - 1, each once and in that order, and a step of any kernel
\* changes nothing but the output storage: every other storage, and the
\* shapes and strides of the inputs and of the output, stay as they were.
C9_WritesOnceFrame ==
    [][/\ pc \in {"map", "zip", "reduce"} =>
            /\ \A s \in DOMAIN mem \ {out.sid} : mem'[s] = mem[s]
            /\ Len(mem'[out.sid]) = Len(mem[out.sid])
            /\ a' = a /\ b' = b
            /\ pc' # "done" => out' = out
       /\ (op' \in {"map", "zip"} /\ pc' \in {"map", "zip", "done"}) =>
            writes' = Iota(i')
       /\ (op' \in {"map", "zip"} /\ pc' = "done") =>
            writes' = Iota(Len(mem'[out'.sid]))
      ]_vars

C9_Witness ==
    /\ op = "zip" /\ pc = "done"
    /\ writes = <<0, 1, 2, 3, 4, 5>>
    /\ ~Contiguous(a) /\ ~Contiguous(b)

-----------------------------------------------------------------------------
(* C10 *)

\* C10 as stated: on either path of the reduce kernel an output entry with
\* seed s and contributing elements x_1..x_n, in increasing index along the
\* reduced dimension, ends as fn(...fn(fn(s, x_1), x_2)..., x_n).
C10_SameFoldBothPaths ==
    (op = "reduce" /\ pc = "done" /\ Cardinality(NonUnit(red.shape)) <= 1) =>
        \A p \in 0..(Len(mem[result.sid]) - 1) :
            mem[result.sid][p + 1] =
                LeftNest(fn, SeedAt(p), Contributing(count(p, PaddedResult)))

\* C10 amended: the partial path ends each entry as
\* fn(...fn(fn(s, x_1), x_2)..., x_n), the elements taken in increasing
\* index along the reduced dimension; the full-reduction path ends out[0]
\* as fn(x_n, fn(x_(n-1), ... fn(x_1, s))), the elements taken in storage
\* order; for add and max the two agree.
C10_FoldOrders ==
    (op = "reduce" /\ pc = "done") =>
        IF FullReduction
        THEN /\ mem[result.sid][1] = RightNest(fn, SeedAt(0), mem[a.sid])
             /\ (fn \in {"add", "max"} /\ Cardinality(NonUnit(red.shape)) <= 1) =>
                    mem[result.sid][1] =
                        LeftNest(fn, SeedAt(0),
                                 Contributing(count(0, PaddedResult)))
        ELSE Cardinality(NonUnit(red.shape)) <= 1 =>
                \A p \in 0..(Len(mem[result.sid]) - 1) :
                    mem[result.sid][p + 1] =
                        LeftNest(fn, SeedAt(p),
                                 Contributing(count(p, PaddedResult)))

C10_Witness ==
    /\ op = "reduce" /\ pc = "done" /\ fn = "sub" /\ given = NoTensor
    /\ FullReduction
    /\ a.shape = <<3>>
    /\ mem[result.sid][1] # LeftNest(fn, start, mem[a.sid])
====
